---- MODULE Spec2Model ----
(***************************************************************************)
(* Numerix: iterative numerical solvers.                                   *)
(*                                                                         *)
(*   src/src/numerix/Numerix.py            base class: is_logging, logs,   *)
(*                                         _log_columns, add_logs          *)
(*   src/src/numerix/roots/Bisection.py    Bisection.start                 *)
(*   src/src/numerix/roots/RegulaFalsi.py  RegulaFalsi.start               *)
(*   src/config.py, src/numerix.py,        global configuration, the       *)
(*   src/nonlinear/*.py                    Newton-Raphson solver           *)
(*                                                                         *)
(* Numbers.  The solvers compute in binary floating point.  The bracket    *)
(* solvers are modelled in a float format of Precision significand bits    *)
(* whose smallest spacing is 1: every operation of the code is one exact   *)
(* integer operation followed by a rounding to the nearest float, ties to  *)
(* even, as IEEE 754 rounds.  The Newton-Raphson solver is modelled within *)
(* one binade: a float is the integer that counts it in units of the last  *)
(* place, sums, differences and products are exact and a quotient is       *)
(* rounded to the nearest unit.  Function values and tolerances are in the *)
(* same unit.                                                              *)
(***************************************************************************)
EXTENDS Integers, Sequences, FiniteSets, TLC

----------------------------------------------------------------------------
(* Bounds of the model *)

\* lower and upper are drawn from 0..MaxBound and one wider float (Endpoints)
MaxBound == 5
\* tol is drawn from 0..MaxTol
MaxTol == 1
\* max_iter is drawn from 0..MaxIter
MaxIter == 2
\* number of start()/add_logs calls made on one solver instance
MaxCalls == 2
\* number of add_logs calls made on one base-class instance
MaxAppends == 3
\* values of the fields of a directly appended record are drawn from 1..MaxVal
MaxVal == 2
\* number of setter calls made on the global configuration
MaxConfigCalls == 2

----------------------------------------------------------------------------
(* Arithmetic *)

Abs(x) == IF x < 0 THEN 0 - x ELSE x

\* n / d for d > 0, rounded to the nearest integer, ties to even
RoundDivPos(n, d) ==
    LET q == n \div d
        r == n % d
    IN  IF 2 * r < d THEN q
        ELSE IF 2 * r > d THEN q + 1
        ELSE IF q % 2 = 0 THEN q ELSE q + 1

\* n / d for d # 0, rounded to the nearest integer, ties to even
RoundDiv(n, d) == IF d > 0 THEN RoundDivPos(n, d) ELSE RoundDivPos(0 - n, 0 - d)

\* Python floats, scaled down: the numbers m * 2^e with |m| < 2^Precision and
\* e >= 0 (binary64 has 53 significand bits).  Every integer up to 2^Precision
\* is a float; above it the spacing doubles with every binade.
Precision == 3

\* the spacing of the floats around n / d, for n >= 0 and d > 0, from spacing s up
RECURSIVE FlUnit(_, _, _)
FlUnit(n, d, s) == IF n < (2 ^ Precision) * d * s THEN s ELSE FlUnit(n, d, 2 * s)

\* n / d for d # 0, rounded to the nearest float, ties to the even significand
FlDiv(n, d) ==
    LET s == FlUnit(Abs(n), Abs(d), 1)
        q == RoundDivPos(Abs(n), Abs(d) * s) * s
    IN  IF (n < 0) # (d < 0) THEN 0 - q ELSE q

\* the exact value x rounded to the nearest float: the result of one operation
Fl(x) == FlDiv(x, 1)

\* the spacing of the floats at x
Ulp(x) == FlUnit(Abs(x), 1, 1)

----------------------------------------------------------------------------
(* The functions handed to the solvers (inputs) *)

Functions == {"x-5", "2x-5", "x^2-8", "7-2x"}

\* f(x) of the function named fn
Apply(fn, x) ==
    CASE fn = "x-5"   -> Fl(x - 5)
      [] fn = "2x-5"  -> Fl(Fl(2 * x) - 5)
      [] fn = "x^2-8" -> Fl(Fl(x * x) - 8)
      [] fn = "7-2x"  -> Fl(7 - Fl(2 * x))
      [] OTHER        -> 0

----------------------------------------------------------------------------
VARIABLES
    \* --- the instance (Numerix and its subclasses Bisection, RegulaFalsi)
    kind,          \* class of the instance: "none" before construction
    is_logging,    \* self.is_logging
    logs,          \* self.logs: the rows of the DataFrame, in order
    log_columns,   \* self._log_columns
    function,      \* self.function
    lower, upper,  \* self.lower, self.upper
    \* --- the running start() call
    pc,            \* "new", "ctor_failed", "idle", "loop", "test"
    tol, max_iter, \* the arguments of the call
    a, b, fa, fb,  \* the working bracket and the cached function values
    i, c, fc,      \* loop index, candidate and its function value
    result,        \* the value returned by the last start() that returned
    outcome,       \* how the last operation ended
    \* --- history
    last_op,       \* the last operation called: "construct", "start", "add_logs"
    ops,           \* calls made on the instance since construction
    direct_calls,  \* add_logs calls made by the caller (not by start())
    arg_lower, arg_upper, arg_count,  \* the arguments of the constructor
    arg_rec,       \* the argument of the caller's last add_logs call
    start_logs,    \* self.logs when the running/last start() was entered
    iters_call,    \* loop bodies entered by the running/last start()
    iters_total,   \* loop bodies entered by all start() calls
    mids_exact     \* this start() call has rounded no midpoint so far

bvars == <<kind, is_logging, logs, log_columns, function, lower, upper,
           pc, tol, max_iter, a, b, fa, fb, i, c, fc, result, outcome,
           last_op, ops, direct_calls, arg_lower, arg_upper, arg_count,
           arg_rec, start_logs, iters_call, iters_total,
           mids_exact>>

VARIABLES
    \* --- the module globals of the configuration (src/config.py)
    cfg_precision, \* _DEFAULT_PRECISION
    cfg_backend,   \* _DEFAULT_BACKEND
    cfg_verbose,   \* _VERBOSE
    cfg_abs_tol,   \* _ABS_TOL
    cfg_rel_tol,   \* _REL_TOL
    cfg_outcome,   \* how the last setter call ended
    \* --- the NewtonRaph instance
    s_dtype, s_abs_tol, s_rel_tol, s_backend, s_verbose,
                   \* self._dtype, self._abs_tol, self._rel_tol, self._backend,
                   \* self._verbose
    base_equation, \* self._base_equation: the name of the system
    initial_guess, \* self.initial_guess
    derivatives,   \* self._derivatives: the grid as handed in
    jacobian_shape,\* self._jacobian_shape
    process_log,   \* self._process_log: the rows of the DataFrame, in order
    \* --- the running solve() call
    npc,           \* "new", "ctor_failed", "idle", "loop"
    n_max_iter, n_tol,  \* the arguments of the call
    tol_defaulted, \* tol was left to its default
    n_i,           \* the loop index i
    prev_args,     \* prev_args
    n_result,      \* the estimate returned by the last solve() that returned
    n_exit,        \* the return statement taken: "converged" or "exhausted"
    n_outcome,     \* how the last operation on the instance ended
    jac,           \* the matrix returned by the last evaluate_jacobian call
    used_dtype,    \* the dtype of the arrays built by the last solve() or
                   \* evaluate_jacobian call
    \* --- history
    n_last_op,     \* the last operation called on the instance
    n_calls,       \* calls made on the instance since construction
    cfg_calls,     \* setter calls made on the configuration
    ctor_config,   \* the configuration read when the instance was constructed
    n_start_log,   \* self._process_log when the running/last solve() was entered
    n_iters        \* loop bodies that ran to their end in the running/last solve()

cvars == <<cfg_precision, cfg_backend, cfg_verbose, cfg_abs_tol, cfg_rel_tol,
           cfg_outcome, cfg_calls>>

nvars == <<s_dtype, s_abs_tol, s_rel_tol, s_backend, s_verbose, base_equation,
           initial_guess, derivatives, jacobian_shape, process_log, npc,
           n_max_iter, n_tol, tol_defaulted, n_i, prev_args, n_result, n_exit,
           n_outcome, jac, used_dtype, n_last_op, n_calls, ctor_config,
           n_start_log, n_iters>>

vars == <<bvars, cvars, nvars>>

----------------------------------------------------------------------------
(* Numerix.add_logs *)

\* a record is a dict: the sequence of its <<key, value>> items in insertion order
Keys(rec) == [k \in 1..Len(rec) |-> rec[k][1]]

\* mutation of KeysMismatch: the key lists are compared as sets
KeysMismatchUnordered(rec, columns) ==
    {Keys(rec)[k] : k \in 1..Len(rec)} # {columns[k] : k \in 1..Len(columns)}

\* list(log.keys()) != self._log_columns
KeysMismatch(rec, columns) == Keys(rec) # columns

\* how add_logs(rec) ends
AddLogsOutcome(rec) ==
    IF ~is_logging THEN "LoggingDisabled"
    ELSE IF log_columns = <<>>
         THEN IF Keys(rec) = <<>> THEN "EmptyFrame" ELSE "ok"
         ELSE IF KeysMismatch(rec, log_columns) THEN "SchemaMismatch" ELSE "ok"

\* self._log_columns after add_logs(rec)
AddLogsColumns(rec) ==
    IF is_logging /\ log_columns = <<>> THEN Keys(rec) ELSE log_columns

\* self.logs after add_logs(rec)
AddLogsRows(rec) ==
    LET frame == IF is_logging /\ log_columns = <<>> THEN <<>> ELSE logs
    IN  IF AddLogsOutcome(rec) = "ok" THEN Append(frame, rec) ELSE frame

\* the Python exception class of an outcome
ExceptionOf(o) ==
    CASE o \in {"LoggingDisabled", "NotConverged"} -> "RuntimeError"
      [] o \in {"SchemaMismatch", "EmptyFrame", "NoSignChange",
                "BoundsError", "ArityError"} -> "ValueError"
      [] o = "ZeroDivision" -> "ZeroDivisionError"
      [] OTHER -> "none"

----------------------------------------------------------------------------
InitBracket ==
    /\ kind = "none"
    /\ is_logging = FALSE
    /\ logs = <<>>
    /\ log_columns = <<>>
    /\ function = "none"
    /\ lower = 0 /\ upper = 0
    /\ pc = "new"
    /\ tol = 0 /\ max_iter = 0
    /\ a = 0 /\ b = 0 /\ fa = 0 /\ fb = 0
    /\ i = 0 /\ c = 0 /\ fc = 0
    /\ result = 0
    /\ outcome = "none"
    /\ last_op = "none"
    /\ ops = 0
    /\ direct_calls = 0
    /\ arg_lower = 0 /\ arg_upper = 0 /\ arg_count = 0
    /\ arg_rec = <<>>
    /\ start_logs = <<>>
    /\ iters_call = 0
    /\ iters_total = 0
    /\ mids_exact = TRUE

----------------------------------------------------------------------------
(* Construction: Numerix.__init__, set_function, set_bounds *)

Solvers == {"Bisection", "RegulaFalsi"}

\* set_function: self.args_count != 1
ArityInvalid(argc) == argc # 1

\* set_bounds: lower >= upper
BoundsInvalid(lo, up) == lo >= up

\* the numbers handed in as lower and upper: the floats up to MaxBound and one
\* float of the binade above 2^Precision, where the spacing is 2
Endpoints == (0..MaxBound) \cup {3 * 2 ^ (Precision - 1)}

\* Bisection(fn, lo, up, is_logging=lg) / RegulaFalsi(fn, lo, up, is_logging=lg),
\* fn taking argc positional arguments
Construct(k, fn, argc, lo, up, lg) ==
    /\ pc = "new"
    /\ UNCHANGED <<cvars, nvars>>
    /\ last_op' = "construct"
    /\ arg_lower' = lo /\ arg_upper' = up /\ arg_count' = argc
    /\ IF ArityInvalid(argc) \/ BoundsInvalid(lo, up)
       THEN /\ pc' = "ctor_failed"
            /\ outcome' = IF ArityInvalid(argc) THEN "ArityError" ELSE "BoundsError"
            /\ UNCHANGED <<kind, is_logging, function, lower, upper>>
       ELSE /\ pc' = "idle"
            /\ outcome' = "ok"
            /\ kind' = k
            /\ is_logging' = lg
            /\ function' = fn
            /\ lower' = lo /\ upper' = up
    /\ logs' = <<>> /\ log_columns' = <<>>
    /\ UNCHANGED <<tol, max_iter, a, b, fa, fb, i, c, fc, result, ops,
                   direct_calls, arg_rec, start_logs, iters_call, iters_total,
                   mids_exact>>

\* Numerix(is_logging=lg): the base class alone
ConstructBase(lg) ==
    /\ pc = "new"
    /\ UNCHANGED <<cvars, nvars>>
    /\ last_op' = "construct"
    /\ pc' = "idle"
    /\ outcome' = "ok"
    /\ kind' = "Numerix"
    /\ is_logging' = lg
    /\ logs' = <<>> /\ log_columns' = <<>>
    /\ UNCHANGED <<function, lower, upper, tol, max_iter, a, b, fa, fb, i, c, fc,
                   result, ops, direct_calls, arg_lower, arg_upper, arg_count,
                   arg_rec, start_logs, iters_call, iters_total,
                   mids_exact>>

----------------------------------------------------------------------------
(* add_logs called by the user of the instance *)

\* the records a caller appends to a base-class instance
KeyLists == {<<>>, <<"iter">>, <<"iter", "loss">>, <<"loss", "iter">>,
             <<"iteration", "loss">>}

MakeRecord(keys, v) == [k \in 1..Len(keys) |-> <<keys[k], v>>]

Records == {MakeRecord(keys, v) : keys \in KeyLists, v \in 1..MaxVal}

\* the record a caller appends to a solver instance
SolverRecords == {MakeRecord(<<"iter", "loss">>, 1)}

\* instance.add_logs(rec), at most limit calls
AddLogs(rec, limit) ==
    /\ pc = "idle"
    /\ UNCHANGED <<cvars, nvars>>
    /\ ops < limit
    /\ last_op' = "add_logs"
    /\ ops' = ops + 1
    /\ direct_calls' = direct_calls + 1
    /\ arg_rec' = rec
    /\ outcome' = AddLogsOutcome(rec)
    /\ log_columns' = AddLogsColumns(rec)
    /\ logs' = AddLogsRows(rec)
    /\ UNCHANGED <<kind, is_logging, function, lower, upper, pc, tol, max_iter,
                   a, b, fa, fb, i, c, fc, result, arg_lower, arg_upper,
                   arg_count, start_logs, iters_call, iters_total,
                   mids_exact>>

----------------------------------------------------------------------------
(* Bisection.start and RegulaFalsi.start *)

\* mutation of SignCheckFails: a zero at a bound passes the check
SignCheckStrict(x, y) == x * y > 0

\* fa * fb >= 0
SignCheckFails(x, y) == x * y >= 0

\* mutation of Midpoint: half the width instead of the midpoint
MidpointOfWidth(pa, pb) == FlDiv(Fl(pb - pa), 2)

\* Bisection: c = (a + b) / 2
Midpoint(pa, pb) == FlDiv(Fl(pa + pb), 2)

\* RegulaFalsi: c = b - fb * (b - a) / (fb - fa)
FalsePosition(pa, pb, pfa, pfb) ==
    Fl(pb - FlDiv(Fl(pfb * Fl(pb - pa)), Fl(pfb - pfa)))

\* mutation of Converged: the tests accept equality
ConvergedInclusive(k, pfc, pa, pb, t) ==
    IF k = "Bisection"
    THEN Abs(pfc) <= t \/ Abs(Fl(pb - pa)) <= 2 * t
    ELSE Abs(pfc) <= t

\* Bisection: abs(fc) < tol or abs(b - a) / 2 < tol;  RegulaFalsi: abs(fc) < tol
Converged(k, pfc, pa, pb, t) ==
    IF k = "Bisection"
    THEN Abs(pfc) < t \/ Abs(Fl(pb - pa)) < 2 * t
    ELSE Abs(pfc) < t

\* mutation of IterRecord: the iteration counter starts at 0
IterRecordFromZero(k, n, pa, pb, pc_, pfc) ==
    IF k = "Bisection"
    THEN << <<"iter", n - 1>>, <<"lower", pa>>, <<"upper", pb>>,
            <<"mid", pc_>>, <<"f(mid)", pfc>> >>
    ELSE << <<"iter", n - 1>>, <<"lower", pa>>, <<"upper", pb>>,
            <<"c", pc_>>, <<"f(c)", pfc>> >>

\* the dict handed to add_logs in iteration n
IterRecord(k, n, pa, pb, pc_, pfc) ==
    IF k = "Bisection"
    THEN << <<"iter", n>>, <<"lower", pa>>, <<"upper", pb>>,
            <<"mid", pc_>>, <<"f(mid)", pfc>> >>
    ELSE << <<"iter", n>>, <<"lower", pa>>, <<"upper", pb>>,
            <<"c", pc_>>, <<"f(c)", pfc>> >>

\* mutation of ShouldLog: start() logs unconditionally
ShouldLogAlways == TRUE

\* if self.is_logging:
ShouldLog == is_logging

\* start(tol=t, max_iter=m): entry, evaluation at the bounds, sign check
StartCall(t, m) ==
    /\ pc = "idle"
    /\ UNCHANGED <<cvars, nvars>>
    /\ kind \in Solvers
    /\ ops < MaxCalls
    /\ last_op' = "start"
    /\ ops' = ops + 1
    /\ tol' = t /\ max_iter' = m
    /\ a' = lower /\ b' = upper
    /\ fa' = Apply(function, lower) /\ fb' = Apply(function, upper)
    /\ start_logs' = logs
    /\ iters_call' = 0
    /\ IF SignCheckFails(fa', fb')
       THEN /\ pc' = "idle"
            /\ outcome' = "NoSignChange"
            /\ i' = i
       ELSE /\ pc' = "loop"
            /\ outcome' = "running"
            /\ i' = 1
    /\ UNCHANGED <<kind, is_logging, logs, log_columns, function, lower, upper,
                   c, fc, result, direct_calls, arg_lower, arg_upper, arg_count,
                   arg_rec, iters_total>>
    /\ mids_exact' = TRUE

\* one loop body up to and including the add_logs call
IterBegin ==
    /\ pc = "loop"
    /\ UNCHANGED <<cvars, nvars>>
    /\ i <= max_iter
    /\ iters_call' = iters_call + 1
    /\ iters_total' = iters_total + 1
    /\ IF kind = "RegulaFalsi" /\ fb = fa
       THEN /\ pc' = "idle"
            /\ outcome' = "ZeroDivision"
            /\ UNCHANGED <<c, fc, logs, log_columns>>
       ELSE /\ c' = IF kind = "Bisection" THEN Midpoint(a, b)
                    ELSE FalsePosition(a, b, fa, fb)
            /\ fc' = Apply(function, c')
            /\ IF ShouldLog
               THEN LET rec == IterRecord(kind, i, a, b, c', fc')
                    IN  /\ log_columns' = AddLogsColumns(rec)
                        /\ logs' = AddLogsRows(rec)
                        /\ IF AddLogsOutcome(rec) = "ok"
                           THEN pc' = "test" /\ outcome' = outcome
                           ELSE pc' = "idle" /\ outcome' = AddLogsOutcome(rec)
               ELSE /\ pc' = "test"
                    /\ UNCHANGED <<logs, log_columns, outcome>>
    /\ UNCHANGED <<kind, is_logging, function, lower, upper, tol, max_iter,
                   a, b, fa, fb, i, result, last_op, ops, direct_calls,
                   arg_lower, arg_upper, arg_count, arg_rec, start_logs>>
    /\ mids_exact' = (mids_exact /\ (kind = "Bisection" => 2 * c' = a + b))

\* the rest of the loop body: convergence test, then the bracket update
IterEnd ==
    /\ pc = "test"
    /\ UNCHANGED <<cvars, nvars>>
    /\ IF Converged(kind, fc, a, b, tol)
       THEN /\ pc' = "idle"
            /\ outcome' = "returned"
            /\ result' = c
            /\ UNCHANGED <<a, b, fa, fb, i>>
       ELSE /\ pc' = "loop"
            /\ i' = i + 1
            /\ IF fa * fc < 0
               THEN b' = c /\ fb' = fc /\ UNCHANGED <<a, fa>>
               ELSE a' = c /\ fa' = fc /\ UNCHANGED <<b, fb>>
            /\ UNCHANGED <<outcome, result>>
    /\ UNCHANGED <<kind, is_logging, logs, log_columns, function, lower, upper,
                   tol, max_iter, c, fc, last_op, ops, direct_calls,
                   arg_lower, arg_upper, arg_count, arg_rec, start_logs,
                   iters_call, iters_total,
                   mids_exact>>

\* the loop ran out: raise RuntimeError("... did not converge.")
Exhausted ==
    /\ pc = "loop"
    /\ UNCHANGED <<cvars, nvars>>
    /\ i > max_iter
    /\ pc' = "idle"
    /\ outcome' = "NotConverged"
    /\ UNCHANGED <<kind, is_logging, logs, log_columns, function, lower, upper,
                   tol, max_iter, a, b, fa, fb, i, c, fc, result, last_op, ops,
                   direct_calls, arg_lower, arg_upper, arg_count, arg_rec,
                   start_logs, iters_call, iters_total,
                   mids_exact>>

----------------------------------------------------------------------------
(* The global configuration: src/config.py *)

\* _ABS_TOL = 1e-8, in units of 1e-8
DefaultAbsTol == 1
\* _REL_TOL = 1e-6, in units of 1e-8
DefaultRelTol == 100

InitConfig ==
    /\ cfg_precision = "float64"
    /\ cfg_backend = "numpy"
    /\ cfg_verbose = FALSE
    /\ cfg_abs_tol = DefaultAbsTol
    /\ cfg_rel_tol = DefaultRelTol
    /\ cfg_outcome = "none"
    /\ cfg_calls = 0

\* config.dtype()
Dtype == IF cfg_precision = "float32" THEN "float32" ELSE "float64"

\* the tuple a constructor reads: dtype(), get_tolerances(), get_backend(),
\* is_verbose()
ConfigNow ==
    [dtype |-> Dtype, abs_tol |-> cfg_abs_tol, rel_tol |-> cfg_rel_tol,
     backend |-> cfg_backend, verbose |-> cfg_verbose]

\* a setter may be called whenever no solve() is running
SetterEnabled == npc # "loop" /\ cfg_calls < MaxConfigCalls

\* set_precision(p)
SetPrecision(p) ==
    /\ SetterEnabled
    /\ cfg_calls' = cfg_calls + 1
    /\ IF p \notin {"float32", "float64"}
       THEN cfg_outcome' = "ValueError" /\ UNCHANGED cfg_precision
       ELSE cfg_outcome' = "ok" /\ cfg_precision' = p
    /\ UNCHANGED <<cfg_backend, cfg_verbose, cfg_abs_tol, cfg_rel_tol>>
    /\ UNCHANGED <<bvars, nvars>>

\* set_backend(be)
SetBackend(be) ==
    /\ SetterEnabled
    /\ cfg_calls' = cfg_calls + 1
    /\ IF be \notin {"numpy", "numba"}
       THEN cfg_outcome' = "ValueError" /\ UNCHANGED cfg_backend
       ELSE cfg_outcome' = "ok" /\ cfg_backend' = be
    /\ UNCHANGED <<cfg_precision, cfg_verbose, cfg_abs_tol, cfg_rel_tol>>
    /\ UNCHANGED <<bvars, nvars>>

\* set_verbose(flag)
SetVerbose(flag) ==
    /\ SetterEnabled
    /\ cfg_calls' = cfg_calls + 1
    /\ cfg_outcome' = "ok"
    /\ cfg_verbose' = flag
    /\ UNCHANGED <<cfg_precision, cfg_backend, cfg_abs_tol, cfg_rel_tol>>
    /\ UNCHANGED <<bvars, nvars>>

\* set_tolerances(at, rt)
SetTolerances(at, rt) ==
    /\ SetterEnabled
    /\ cfg_calls' = cfg_calls + 1
    /\ IF at <= 0 \/ rt <= 0
       THEN cfg_outcome' = "ValueError" /\ UNCHANGED <<cfg_abs_tol, cfg_rel_tol>>
       ELSE cfg_outcome' = "ok" /\ cfg_abs_tol' = at /\ cfg_rel_tol' = rt
    /\ UNCHANGED <<cfg_precision, cfg_backend, cfg_verbose>>
    /\ UNCHANGED <<bvars, nvars>>

----------------------------------------------------------------------------
(* Arrays at the configured precision *)

\* np.array(v, dtype=dt) for one element: float32 has the coarser grid
Cast(dt, v) == IF dt = "float32" THEN 2 * RoundDiv(v, 2) ELSE v

CastVec(dt, v) == [k \in 1..Len(v) |-> Cast(dt, v[k])]

CastMat(dt, m) == [r \in 1..Len(m) |-> CastVec(dt, m[r])]

----------------------------------------------------------------------------
(* The systems handed to NewtonRaph (inputs) *)

Systems == {"x^2-16", "x^2+4", "circle-line"}

\* len(base_equations)
Dim(sys) == IF sys = "circle-line" THEN 2 ELSE 1

\* [f(*x) for f in base_equations]
Residual(sys, x) ==
    CASE sys = "x^2-16"      -> << x[1] * x[1] - 16 >>
      [] sys = "x^2+4"       -> << x[1] * x[1] + 4 >>
      [] sys = "circle-line" -> << x[1] * x[1] + x[2] * x[2] - 32,
                                   2 * x[1] - 2 * x[2] >>
      [] OTHER               -> << >>

\* [[der(*x) for der in row] for row in derivatives], derivatives the partial
\* derivatives of the system
Partials(sys, x) ==
    CASE sys = "x^2-16"      -> << << 2 * x[1] >> >>
      [] sys = "x^2+4"       -> << << 2 * x[1] >> >>
      [] sys = "circle-line" -> << << 2 * x[1], 2 * x[2] >>, << 2, 0 - 2 >> >>
      [] OTHER               -> << >>

\* the initial guesses tried for a system
Guesses(sys) ==
    CASE sys = "x^2-16"      -> { <<5>>, <<1>> }
      [] sys = "x^2+4"       -> { <<2>>, <<0>> }
      [] sys = "circle-line" -> { <<5, 5>>, <<1, 0 - 1>> }
      [] OTHER               -> { }

\* the derivative grids handed in: "fn" is a callable cell, "num" is not
Grids ==
    { << >>, << << >> >>, << << >>, << >> >>,
      << <<"fn">> >>, << <<"fn", "fn">> >>, << <<"fn">>, <<"fn">> >>,
      << <<"fn", "fn">>, <<"fn", "fn">> >>,
      << <<"fn">>, <<"fn", "fn">> >>,
      << <<"num">> >>, << <<"fn", "fn">>, <<"fn", "num">> >> }

\* every cell of every row is callable
AllCallable(grid) ==
    \A r \in 1..Len(grid) : \A k \in 1..Len(grid[r]) : grid[r][k] = "fn"

\* the grid has n rows of n cells
IsSquare(grid, n) ==
    Len(grid) = n /\ \A r \in 1..Len(grid) : Len(grid[r]) = n

\* the rows have different lengths
IsRagged(grid) ==
    \E r \in 1..Len(grid) : Len(grid[r]) # Len(grid[1])

----------------------------------------------------------------------------
(* NewtonRaph: construction and set_derivatives *)

NoConfig == [dtype |-> "none", abs_tol |-> 0, rel_tol |-> 0,
             backend |-> "none", verbose |-> FALSE]

InitNewton ==
    /\ s_dtype = "none" /\ s_abs_tol = 0 /\ s_rel_tol = 0
    /\ s_backend = "none" /\ s_verbose = FALSE
    /\ base_equation = "none"
    /\ initial_guess = << >>
    /\ derivatives = << >>
    /\ jacobian_shape = << >>
    /\ process_log = << >>
    /\ npc = "new"
    /\ n_max_iter = 0 /\ n_tol = 0 /\ tol_defaulted = FALSE
    /\ n_i = 0
    /\ prev_args = << >>
    /\ n_result = << >>
    /\ n_exit = "none"
    /\ n_outcome = "none"
    /\ jac = << >>
    /\ used_dtype = "none"
    /\ n_last_op = "none"
    /\ n_calls = 0
    /\ ctor_config = NoConfig
    /\ n_start_log = << >>
    /\ n_iters = 0

Init == InitBracket /\ InitConfig /\ InitNewton

\* how set_derivatives(grid) ends; is_list: grid is a list or a tuple
SetDerivativesOutcome(is_list, grid) ==
    IF ~is_list THEN "TypeError"
    ELSE IF ~AllCallable(grid) THEN "TypeError"
    ELSE IF Len(grid) = 0 THEN "IndexError"
    ELSE "ok"

\* self._derivatives is assigned
DerivativesStored(is_list, grid) ==
    SetDerivativesOutcome(is_list, grid) \in {"ok", "IndexError"}

\* get_config()
GetConfig ==
    [dtype |-> s_dtype, abs_tol |-> s_abs_tol, rel_tol |-> s_rel_tol,
     backend |-> s_backend, verbose |-> s_verbose]

\* NewtonRaph(base_equations, derivatives, initial_guess): the equations of sys
\* (eqs_ok: every one callable), guess as an array of ndim dimensions, grid
NConstruct(sys, eqs_ok, guess, ndim, is_list, grid) ==
    /\ npc = "new"
    /\ n_last_op' = "construct"
    /\ LET failure ==
               IF ~eqs_ok THEN "TypeError"
               ELSE IF ndim # 1 THEN "ValueError"
               ELSE IF SetDerivativesOutcome(is_list, grid) # "ok"
                    THEN SetDerivativesOutcome(is_list, grid)
               ELSE "none"
       IN  IF failure # "none"
           THEN /\ npc' = "ctor_failed"
                /\ n_outcome' = failure
                /\ UNCHANGED <<s_dtype, s_abs_tol, s_rel_tol, s_backend, s_verbose,
                               base_equation, initial_guess, derivatives,
                               jacobian_shape, ctor_config>>
           ELSE /\ npc' = "idle"
                /\ n_outcome' = "ok"
                /\ s_dtype' = Dtype
                /\ s_abs_tol' = cfg_abs_tol /\ s_rel_tol' = cfg_rel_tol
                /\ s_backend' = cfg_backend
                /\ s_verbose' = cfg_verbose
                /\ ctor_config' = ConfigNow
                /\ base_equation' = sys
                /\ initial_guess' = CastVec(Dtype, guess)
                /\ derivatives' = grid
                /\ jacobian_shape' = <<Len(grid), Len(grid[1])>>
    /\ process_log' = << >>
    /\ UNCHANGED <<n_max_iter, n_tol, tol_defaulted, n_i, prev_args, n_result,
                   n_exit, jac, used_dtype, n_calls, n_start_log, n_iters>>
    /\ UNCHANGED <<bvars, cvars>>

\* instance.set_derivatives(grid)
NSetDerivatives(is_list, grid) ==
    /\ npc = "idle"
    /\ n_calls < MaxCalls
    /\ n_last_op' = "set_derivatives"
    /\ n_calls' = n_calls + 1
    /\ n_outcome' = SetDerivativesOutcome(is_list, grid)
    /\ derivatives' = IF DerivativesStored(is_list, grid) THEN grid ELSE derivatives
    /\ jacobian_shape' = IF SetDerivativesOutcome(is_list, grid) = "ok"
                         THEN <<Len(grid), Len(grid[1])>>
                         ELSE jacobian_shape
    /\ UNCHANGED <<s_dtype, s_abs_tol, s_rel_tol, s_backend, s_verbose,
                   base_equation, initial_guess, process_log, npc, n_max_iter,
                   n_tol, tol_defaulted, n_i, prev_args, n_result, n_exit, jac,
                   used_dtype, ctor_config, n_start_log, n_iters>>
    /\ UNCHANGED <<bvars, cvars>>

----------------------------------------------------------------------------
(* NewtonRaph.evaluate_jacobian and NewtonRaph.solve *)

\* np.linalg.det(Jx) of a 1 x 1 or 2 x 2 matrix
Det(m) ==
    IF Len(m) = 1 THEN m[1][1]
    ELSE m[1][1] * m[2][2] - m[1][2] * m[2][1]

\* inv_J @ Fx at precision dt, for det # 0
Step(dt, m, fx, det) ==
    IF Len(m) = 1
    THEN << Cast(dt, RoundDiv(fx[1], det)) >>
    ELSE << Cast(dt, RoundDiv(m[2][2] * fx[1] - m[1][2] * fx[2], det)),
            Cast(dt, RoundDiv(m[1][1] * fx[2] - m[2][1] * fx[1], det)) >>

\* prev_args - delta at precision dt
Minus(dt, x, d) == [k \in 1..Len(x) |-> Cast(dt, x[k] - d[k])]

\* the square of np.linalg.norm(delta)
NormSq(d) == IF Len(d) = 1 THEN d[1] * d[1] ELSE d[1] * d[1] + d[2] * d[2]

\* mutation of StepSmall: the test accepts equality
StepSmallInclusive(d, t) == t > 0 /\ NormSq(d) <= t * t

\* np.linalg.norm(delta) < tol
StepSmall(d, t) == t > 0 /\ NormSq(d) < t * t

\* mutation of IsSingular: a near-singularity threshold
IsSingularLoose(m) == Abs(Det(m)) <= 2

\* np.linalg.det(Jx) == 0
IsSingular(m) == Det(m) = 0

\* the dict handed to append_process_log in iteration k (the norm is kept as
\* its square)
NewtonRecord(k, x, fx, d, nx) ==
    [Iteration |-> k, Args |-> x, Fx |-> fx, dx |-> d, norm_sq |-> NormSq(d),
     NewArgs |-> nx]

\* the grid holds the n x n partial derivatives of the system
GridFits == IsSquare(derivatives, Dim(base_equation))

\* a grid of callables that are not the partial derivatives of the system
\* evaluates to values the model does not know: every cell v
Unknown(grid, v) == [r \in 1..Len(grid) |-> [k \in 1..Len(grid[r]) |-> v]]

\* instance.evaluate_jacobian(self.initial_guess)
NEvaluateJacobian ==
    /\ npc = "idle"
    /\ n_calls < MaxCalls
    /\ n_last_op' = "evaluate_jacobian"
    /\ n_calls' = n_calls + 1
    /\ used_dtype' = Dtype
    /\ IF IsRagged(derivatives)
       THEN n_outcome' = "ValueError" /\ jac' = jac
       ELSE /\ n_outcome' = "ok"
            /\ IF GridFits
               THEN jac' = CastMat(Dtype, Partials(base_equation, initial_guess))
               ELSE \E v \in 0..1 : jac' = CastMat(Dtype, Unknown(derivatives, v))
    /\ UNCHANGED <<s_dtype, s_abs_tol, s_rel_tol, s_backend, s_verbose,
                   base_equation, initial_guess, derivatives, jacobian_shape,
                   process_log, npc, n_max_iter, n_tol, tol_defaulted, n_i,
                   prev_args, n_result, n_exit, ctor_config, n_start_log, n_iters>>
    /\ UNCHANGED <<bvars, cvars>>

\* solve(max_iter=m, tol=t), or solve(max_iter=m) when dflt: entry
NSolve(m, t, dflt) ==
    /\ npc = "idle"
    /\ n_calls < MaxCalls
    /\ n_last_op' = "solve"
    /\ n_calls' = n_calls + 1
    /\ n_max_iter' = m
    /\ tol_defaulted' = dflt
    /\ n_tol' = IF dflt THEN DefaultAbsTol ELSE t
    /\ prev_args' = CastVec(Dtype, initial_guess)
    /\ used_dtype' = Dtype
    /\ n_i' = 0
    /\ n_iters' = 0
    /\ n_start_log' = process_log
    /\ npc' = "loop"
    /\ n_outcome' = "running"
    /\ UNCHANGED <<s_dtype, s_abs_tol, s_rel_tol, s_backend, s_verbose,
                   base_equation, initial_guess, derivatives, jacobian_shape,
                   process_log, n_result, n_exit, jac, ctor_config>>
    /\ UNCHANGED <<bvars, cvars>>

\* one loop body of solve
NIterate ==
    /\ npc = "loop"
    /\ n_i < n_max_iter
    /\ LET Fx == CastVec(Dtype, Residual(base_equation, prev_args))
           Jx == CastMat(Dtype, Partials(base_equation, prev_args))
           delta == Step(Dtype, Jx, Fx, Det(Jx))
           new_args == Minus(Dtype, prev_args, delta)
       IN  IF ~GridFits
           THEN \* no record is appended: the array cannot be built, det
                \* refuses a matrix that is not square, or inv_J @ Fx refuses
                \* the shapes
                /\ npc' = "idle"
                /\ \/ /\ IsRagged(derivatives)
                      /\ n_outcome' = "ValueError"
                   \/ /\ ~IsRagged(derivatives)
                      /\ ~IsSquare(derivatives, Len(derivatives))
                      /\ n_outcome' = "NotSquare"
                   \/ /\ ~IsRagged(derivatives)
                      /\ IsSquare(derivatives, Len(derivatives))
                      /\ n_outcome' \in {"SingularJacobian", "ValueError"}
                /\ UNCHANGED <<process_log, n_i, prev_args, n_result, n_exit,
                               n_iters>>
           ELSE IF IsSingular(Jx)
           THEN /\ npc' = "idle"
                /\ n_outcome' = "SingularJacobian"
                /\ UNCHANGED <<process_log, n_i, prev_args, n_result, n_exit,
                               n_iters>>
           ELSE /\ process_log' = Append(process_log,
                        NewtonRecord(n_i + 1, prev_args, Fx, delta, new_args))
                /\ n_iters' = n_iters + 1
                /\ IF StepSmall(delta, n_tol)
                   THEN /\ npc' = "idle"
                        /\ n_outcome' = "returned"
                        /\ n_exit' = "converged"
                        /\ n_result' = new_args
                        /\ UNCHANGED <<n_i, prev_args>>
                   ELSE /\ prev_args' = new_args
                        /\ n_i' = n_i + 1
                        /\ UNCHANGED <<npc, n_outcome, n_exit, n_result>>
    /\ UNCHANGED <<s_dtype, s_abs_tol, s_rel_tol, s_backend, s_verbose,
                   base_equation, initial_guess, derivatives, jacobian_shape,
                   n_max_iter, n_tol, tol_defaulted, jac, used_dtype, n_last_op,
                   n_calls, ctor_config, n_start_log>>
    /\ UNCHANGED <<bvars, cvars>>

\* the loop ran out: return prev_args, self.get_process_log()
NExhausted ==
    /\ npc = "loop"
    /\ n_i >= n_max_iter
    /\ npc' = "idle"
    /\ n_outcome' = "returned"
    /\ n_exit' = "exhausted"
    /\ n_result' = prev_args
    /\ UNCHANGED <<s_dtype, s_abs_tol, s_rel_tol, s_backend, s_verbose,
                   base_equation, initial_guess, derivatives, jacobian_shape,
                   process_log, n_max_iter, n_tol, tol_defaulted, n_i, prev_args,
                   jac, used_dtype, n_last_op, n_calls, ctor_config, n_start_log,
                   n_iters>>
    /\ UNCHANGED <<bvars, cvars>>

----------------------------------------------------------------------------
(* The bracketing solvers *)

Next ==
    \/ \E k \in Solvers, fn \in Functions, argc \in 1..2,
          lo \in Endpoints, up \in Endpoints, lg \in BOOLEAN :
            Construct(k, fn, argc, lo, up, lg)
    \/ \E t \in 0..MaxTol, m \in 0..MaxIter : StartCall(t, m)
    \/ IterBegin
    \/ IterEnd
    \/ Exhausted
    \/ \E rec \in SolverRecords : AddLogs(rec, MaxCalls)

Spec == Init /\ [][Next]_vars

(* The base class alone *)

NextLog ==
    \/ \E lg \in BOOLEAN : ConstructBase(lg)
    \/ \E rec \in Records : AddLogs(rec, MaxAppends)

SpecLog == Init /\ [][NextLog]_vars

(* The Newton-Raphson solver *)

\* the arguments handed to set_derivatives: a list or tuple of rows, or
\* something that is neither
GridArgs == {<<TRUE, grid>> : grid \in Grids} \cup {<<FALSE, << >> >>}

NextNewton ==
    \/ \E p \in {"float32", "float64"} : SetPrecision(p)
    \/ \E sys \in Systems, eqs_ok \in BOOLEAN, ndim \in 1..2, ga \in GridArgs :
            \E guess \in Guesses(sys) :
                NConstruct(sys, eqs_ok, guess, ndim, ga[1], ga[2])
    \/ \E ga \in GridArgs : NSetDerivatives(ga[1], ga[2])
    \/ \E m \in 0..MaxIter, t \in 0..MaxTol, dflt \in BOOLEAN : NSolve(m, t, dflt)
    \/ NIterate
    \/ NExhausted

SpecNewton == Init /\ [][NextNewton]_vars

(* The global configuration and a Newton-Raphson solver with the Jacobian of
   its system *)

NextConfig ==
    \/ \E p \in {"float32", "float64", "float16"} : SetPrecision(p)
    \/ \E be \in {"numpy", "numba", "jax"} : SetBackend(be)
    \/ \E flag \in BOOLEAN : SetVerbose(flag)
    \/ \E at \in {0, MaxTol + 1}, rt \in {0, MaxTol + 1} : SetTolerances(at, rt)
    \/ \E sys \in Systems, ga \in GridArgs :
            \E guess \in Guesses(sys) :
                /\ IsSquare(ga[2], Dim(sys))
                /\ NConstruct(sys, TRUE, guess, 1, ga[1], ga[2])
    \/ NEvaluateJacobian
    \/ \E m \in 0..MaxIter, dflt \in BOOLEAN : NSolve(m, MaxTol + 1, dflt)
    \/ NIterate
    \/ NExhausted

SpecConfig == Init /\ [][NextConfig]_vars

----------------------------------------------------------------------------
(* Properties of the process log and of the bracketing solvers *)

IsPrefix(s, t) == Len(s) <= Len(t) /\ SubSeq(t, 1, Len(s)) = s

\* the caller's add_logs call has just returned or raised
AddLogsStep == last_op' = "add_logs" /\ ops' = ops + 1

\* the key list start() logs with
IterKeys(k) == Keys(IterRecord(k, 0, 0, 0, 0, 0))

\* f(lower) * f(upper) of the constructed solver
BoundsProduct == Apply(function, lower) * Apply(function, upper)

\* the log's schema is not one fixed by a caller's own record
SchemaOfSolver == ~is_logging \/ log_columns = <<>> \/ log_columns = IterKeys(kind)

\* C1, state part: with logging enabled every row has the key list of the first
\* row, which is the fixed schema.
C1_SchemaInv ==
    (pc = "idle" /\ is_logging) =>
        /\ (logs = <<>>) <=> (log_columns = <<>>)
        /\ logs # <<>> => log_columns = Keys(logs[1])
        /\ \A k \in 1..Len(logs) : Keys(logs[k]) = log_columns

\* C1, step part: what one add_logs call does with logging enabled.
C1_Step ==
    (AddLogsStep /\ is_logging) =>
        /\ (log_columns = <<>> /\ Keys(arg_rec') # <<>>) =>
               /\ log_columns' = Keys(arg_rec')
               /\ logs' = <<arg_rec'>>
               /\ outcome' = "ok"
        /\ (log_columns # <<>> /\ Keys(arg_rec') # log_columns) =>
               /\ outcome' = "SchemaMismatch"
               /\ ExceptionOf(outcome') = "ValueError"
               /\ logs' = logs
               /\ log_columns' = log_columns
        /\ (log_columns # <<>> /\ Keys(arg_rec') = log_columns) =>
               /\ outcome' = "ok"
               /\ logs' = Append(logs, arg_rec')
               /\ log_columns' = log_columns

\* C1: add_logs with logging enabled: the first appended record fixes the schema
\* to its ordered key list; every later record whose key list differs in names or
\* in order is rejected with the schema-mismatch ValueError and leaves records and
\* schema unchanged; a record with the identical ordered key list becomes the new
\* last row.
C1_LogSchema == [](C1_SchemaInv) /\ [][C1_Step]_vars

\* C1 witness: two rows are in the log and a record with the same names in
\* another order has just been rejected.
C1_Witness ==
    /\ kind = "Numerix" /\ is_logging
    /\ Len(logs) = 2
    /\ log_columns = <<"iter", "loss">>
    /\ last_op = "add_logs"
    /\ Keys(arg_rec) = <<"loss", "iter">>
    /\ outcome = "SchemaMismatch"

\* C2: constructing a bracketing solver with lower < upper succeeds whatever the
\* signs of f at the bounds; every start() on a solver with
\* f(lower) * f(upper) >= 0 raises the no-sign-change ValueError before any
\* iteration, appends nothing to the log and leaves lower/upper as constructed.
C2_SignCheckEachCall ==
    /\ (last_op # "none" /\ arg_count = 1 /\ arg_lower < arg_upper) =>
           /\ pc # "ctor_failed"
           /\ lower = arg_lower /\ upper = arg_upper
    /\ (last_op = "start" /\ BoundsProduct >= 0) =>
           /\ pc = "idle"
           /\ outcome = "NoSignChange"
           /\ ExceptionOf(outcome) = "ValueError"
           /\ iters_call = 0
           /\ logs = start_logs

\* C2 witness: the second start() of a solver whose function is zero exactly at
\* the upper bound has raised.
C2_Witness ==
    /\ last_op = "start" /\ ops = 2 /\ direct_calls = 0
    /\ Apply(function, upper) = 0
    /\ outcome = "NoSignChange"

BisectionUpdate == kind = "Bisection" /\ pc = "test" /\ pc' = "loop"

\* C4 as stated: the width of the Bisection bracket halves exactly on every
\* iteration that does not converge.
C4_HalvesExactly == [][BisectionUpdate => 2 * Abs(b' - a') = Abs(b - a)]_vars

\* C4, step part of the amended claim
C4_Step ==
    BisectionUpdate =>
        /\ \/ a' = c /\ b' = b
           \/ a' = a /\ b' = c
        /\ Abs(2 * Abs(b' - a') - Abs(b - a)) <= Ulp(c)
        /\ 2 * c = a + b => 2 * Abs(b' - a') = Abs(b - a)

\* 2^n
RECURSIVE Pow2(_)
Pow2(n) == IF n <= 0 THEN 1 ELSE 2 * Pow2(n - 1)

\* C4, state part of the amended claim
C4_ClosedForm ==
    (kind = "Bisection" /\ pc = "loop" /\ mids_exact) =>
        (b - a) * Pow2(i - 1) = upper - lower

\* C4 (amended): a Bisection iteration that does not converge replaces one
\* endpoint by the computed midpoint and keeps the other; the new width is half
\* the old one when (a + b) / 2 is computed without rounding, and otherwise
\* differs from half by the rounding of the midpoint (at most half a unit in
\* the last place of c); the width at iteration k is (upper - lower) / 2^(k-1)
\* while every earlier midpoint was computed without rounding.
C4_HalvesUpToRounding == [](C4_ClosedForm) /\ [][C4_Step]_vars

\* C4 witness: Bisection is at its second iteration with a width that is not
\* half of the initial one.
C4_Witness ==
    /\ kind = "Bisection" /\ pc = "loop" /\ i = 2
    /\ 2 * (b - a) # upper - lower

\* C9: on an instance constructed with logging disabled every add_logs call by
\* the caller raises the logging-disabled RuntimeError and changes neither log
\* nor schema, start() never raises that error, and the log stays empty.
C9_LoggingDisabled ==
    (pc \in {"idle", "loop", "test"} /\ ~is_logging) =>
        /\ logs = <<>>
        /\ log_columns = <<>>
        /\ outcome # "LoggingDisabled" => last_op # "add_logs"
        /\ outcome = "LoggingDisabled" =>
               /\ last_op = "add_logs"
               /\ ExceptionOf(outcome) = "RuntimeError"

\* C9 witness: with logging disabled a start() that iterated was followed by an
\* add_logs call, which raised.
C9_Witness ==
    /\ kind \in Solvers /\ ~is_logging
    /\ iters_total >= 1
    /\ last_op = "add_logs"
    /\ outcome = "LoggingDisabled"

\* C10, state part
C10_Inv ==
    /\ last_op = "construct" => logs = <<>>
    /\ (kind \in Solvers /\ is_logging /\ direct_calls = 0) =>
           /\ Len(logs) = iters_total
           /\ Len(logs) = Len(start_logs) + iters_call
           /\ IsPrefix(start_logs, logs)
           /\ \A k \in 1..Len(logs) : Keys(logs[k]) = IterKeys(kind)
           /\ \A k \in 1..iters_call : logs[Len(start_logs) + k][1][2] = k
           /\ pc = "test" => logs[Len(logs)] = IterRecord(kind, i, a, b, c, fc)

\* C10: with logging enabled the log is empty after construction; start()
\* appends one record per loop body entered, before that body's convergence
\* test, with the fields iter, lower, upper, mid|c, f(mid)|f(c) in this order
\* and iter counting 1, 2, ... within the call; over any sequence of start()
\* calls the length of the log is the number of loop bodies entered and no
\* earlier record is changed or removed.
C10_OneRecordPerIteration == [](C10_Inv) /\ [][IsPrefix(logs, logs')]_vars

\* C10 witness: the second start() has appended its first record behind the two
\* records of the first.
C10_Witness ==
    /\ kind \in Solvers /\ is_logging /\ direct_calls = 0
    /\ ops = 2 /\ pc = "test"
    /\ Len(logs) = 3
    /\ logs[3][1][2] = 1

----------------------------------------------------------------------------
(* Properties of the Newton-Raphson solver and of the configuration *)

\* the Jacobian of the system at the current iterate, as solve builds it
JacobianNow == CastMat(used_dtype, Partials(base_equation, prev_args))

\* the records appended by the running/last solve()
NewRecords == SubSeq(process_log, Len(n_start_log) + 1, Len(process_log))

\* solve() has ended
SolveEnded == n_last_op = "solve" /\ npc = "idle"

\* C5, state part: the log at a singular-Jacobian abort
C5_Inv ==
    (SolveEnded /\ n_outcome = "SingularJacobian") =>
        /\ GridFits => Det(JacobianNow) = 0
        /\ IsPrefix(n_start_log, process_log)
        /\ Len(NewRecords) = n_i
        /\ \A k \in 1..Len(NewRecords) : NewRecords[k].Iteration = k
        /\ n_start_log = << >> => Len(process_log) = n_i

\* C5, step part: a loop body that finds det(J) = 0 raises and appends nothing
C5_Step ==
    (npc = "loop" /\ n_i < n_max_iter /\ GridFits /\ Det(JacobianNow) = 0) =>
        /\ npc' = "idle"
        /\ n_outcome' = "SingularJacobian"
        /\ process_log' = process_log
        /\ n_result' = n_result

\* C5: solve aborts with the singular-Jacobian error as soon as the determinant
\* of the Jacobian at the current iterate is exactly zero, before the step is
\* computed and before a record of that iteration is appended: singular at
\* iteration k, the call has appended exactly its k-1 earlier records (none when
\* singular at the first iterate; on a fresh solver the log then holds k-1
\* records).
C5_SingularAborts == [](C5_Inv) /\ [][C5_Step]_vars

\* C5 witness: on a solver not solved before, the Jacobian was singular at the
\* second iteration and the log holds the one record of the first.
C5_Witness ==
    /\ SolveEnded /\ GridFits
    /\ n_outcome = "SingularJacobian"
    /\ n_start_log = << >>
    /\ n_i = 1
    /\ Len(process_log) = 1

\* C6 as stated: the log returned by solve is as long as the number of
\* iterations the call performed.
C6_LogLengthIsIterations ==
    (SolveEnded /\ n_outcome = "returned") => Len(process_log) = n_iters

\* C6 (amended): solve never raises on an exhausted budget: it returns
\* (x(i+1), log) at the first iteration whose step has norm < tol, and otherwise
\* the last computed estimate and the log after max_iter iterations; the log
\* returned is the accumulated log of the instance: the records of earlier
\* solve calls followed by one record per iteration this call performed.
C6_ReturnsOnExhaustion ==
    (SolveEnded /\ GridFits) =>
        /\ n_outcome \in {"returned", "SingularJacobian"}
        /\ n_outcome = "returned" =>
               /\ n_exit \in {"converged", "exhausted"}
               /\ IsPrefix(n_start_log, process_log)
               /\ Len(NewRecords) = n_iters
               /\ n_iters <= n_max_iter
               /\ n_exit = "converged" =>
                      /\ n_iters = n_i + 1
                      /\ n_result = NewRecords[n_iters].NewArgs
                      /\ n_tol > 0
                      /\ NewRecords[n_iters].norm_sq < n_tol * n_tol
                      /\ \A k \in 1..(n_iters - 1) :
                             ~(n_tol > 0 /\ NewRecords[k].norm_sq < n_tol * n_tol)
               /\ n_exit = "exhausted" =>
                      /\ n_iters = n_max_iter
                      /\ n_result = IF n_iters = 0
                                    THEN CastVec(used_dtype, initial_guess)
                                    ELSE NewRecords[n_iters].NewArgs
                      /\ \A k \in 1..n_iters :
                             ~(n_tol > 0 /\ NewRecords[k].norm_sq < n_tol * n_tol)

\* C6 witness: a second solve on the same instance used up its budget and
\* returned, behind the records of the first.
C6_Witness ==
    /\ SolveEnded /\ GridFits
    /\ n_outcome = "returned" /\ n_exit = "exhausted"
    /\ n_iters >= 1
    /\ n_start_log # << >>

\* C7: no NewtonRaph instance exists whose derivatives grid is not n x n
\* callables, n the number of equations.
C7_GridValidated ==
    npc \in {"idle", "loop"} =>
        /\ IsSquare(derivatives, Dim(base_equation))
        /\ AllCallable(derivatives)

\* C8: get_config returns the configuration captured at construction, and
\* solve / evaluate_jacobian use the precision and the default tolerance
\* captured at construction, whatever the global configuration is by then.
C8_SnapshotUsed ==
    npc \in {"idle", "loop"} =>
        /\ GetConfig = ctor_config
        /\ n_last_op \in {"solve", "evaluate_jacobian"} =>
               used_dtype = ctor_config.dtype
        /\ (n_last_op = "solve" /\ tol_defaulted) => n_tol = ctor_config.abs_tol

\* a start() call with tol > 0 is at the start of an iteration
IterationStart == pc = "loop" /\ i <= max_iter /\ tol > 0

\* C11, state part: the working bracket, the cached function values, the
\* candidate and the returned estimate
C11_Inv ==
    /\ (kind \in Solvers /\ IterationStart) =>
           /\ lower <= a /\ a < b /\ b <= upper
           /\ fa = Apply(function, a) /\ fb = Apply(function, b)
           /\ fa * fb < 0
    /\ (kind \in Solvers /\ pc = "test" /\ tol > 0) =>
           (lower <= c /\ c <= upper)
    /\ (kind \in Solvers /\ pc = "idle" /\ last_op = "start" /\ tol > 0
            /\ outcome = "returned") =>
           (lower <= result /\ result <= upper)

\* C11, step part: only the constructor assigns self.lower and self.upper
C11_Step == last_op' = "construct" \/ (lower' = lower /\ upper' = upper)

\* C11: for tol > 0, at the start of every iteration of a start() call of
\* Bisection and RegulaFalsi the working bracket satisfies
\* lower <= a < b <= upper, fa and fb are f(a) and f(b), and fa * fb < 0; every
\* candidate c and the returned estimate lie in [lower, upper]; start() never
\* changes self.lower and self.upper.
C11_BracketInvariant == [](C11_Inv) /\ [][C11_Step]_vars

====
